---- MODULE Spec2Model ----
(***************************************************************************)
(* Print-failure monitor of visualglitch91/3d-printer-failure-detection.   *)
(*                                                                         *)
(* The repository holds two entry programs:                                *)
(*   "multi"   src/unnamed/part_000  the multi-printer monitor, whose loop *)
(*             is detectionLoop and whose state is the pair of arrays      *)
(*             isPrinting[], hasFailed[] indexed by printer position;      *)
(*   "single"  src/index.mjs         the single-printer monitor, whose     *)
(*             loop is startMonitoring and whose state is the pair of      *)
(*             scalars isPrinting, hasFailed (printer 1 of the model).     *)
(* A run executes one of them; Init chooses which.                         *)
(*                                                                         *)
(* Node runs both on one event loop: code between two awaits is atomic,    *)
(* and every await of a remote call is a suspension point.  Each action    *)
(* below is the code that runs from the completion of one awaited call to  *)
(* the next await; the outcome of the awaited call is its parameter.       *)
(*                                                                         *)
(* Specifications:                                                         *)
(*   Spec          the monitor while no termination signal arrives;        *)
(*   FairSpec      the same, every await settling and the timer firing;    *)
(*   ShutdownSpec  the monitor with its SIGINT/SIGTERM handler;            *)
(*   ScenarioSpec  two printers, one qualifying detection for the first;   *)
(*   DrawSpec      the annotator on lists of differing boxes.              *)
(***************************************************************************)
EXTENDS Integers, Sequences, FiniteSets, TLC

(***************************************************************************)
(* Bounds and configuration.                                               *)
(***************************************************************************)
\* printers.length: number of entries of config.PRINTERS
NumPrinters == 2
\* longest detection list returned by the inference endpoint
MaxDetections == 2
\* saturation of the counter of consecutive qualifying cycles
MaxRun == 3
\* config.MINIMUM_CONFIDENCE, in tenths (0.6)
minimumConfidence == 6

\* detection[0]: the label of a detection
Labels == {"failure", "spaghetti"}
\* detection[1]: confidences in tenths: below, equal to and above the minimum
Confidences == {4, 6, 8}
\* detection[2]: [xc, yc, w, h]
Boxes == {<<10, 10, 20, 20>>}
\* one detection, as the array [label, confidence, box] of the response
Detection == Labels \X Confidences \X Boxes

RECURSIVE SeqsUpTo(_, _)
SeqsUpTo(S, n) ==
    IF n = 0 THEN {<<>>}
    ELSE LET shorter == SeqsUpTo(S, n - 1)
         IN  shorter \cup {Append(s, x) : s \in {t \in shorter : Len(t) = n - 1}, x \in S}

\* data.detections of a well-formed response of the inference endpoint
DetectionLists == SeqsUpTo(Detection, MaxDetections)

\* what the status request can come back with: the nested boolean true, the
\* nested boolean false, a rejected fetch ("throw"), and a body that is not
\* JSON or lacks state or state.flags ("malformed": response.json() or the
\* property access throws).  The flag is the boolean of the status interface.
StatusResponses == {"printing", "idle", "throw", "malformed"}
\* what the detection request can come back with besides a detection list
DetectFailures == {"throw", "malformed"}
\* the camera fetch and decode of drawBoundingBoxes
CameraOutcomes == {"ok", "fail"}
\* fs.createWriteStream opens the file after the call returned: the file
\* appears in the directory ("open"), or the stream emits "error"
OpenOutcomes == {"open", "error"}
\* the write stream of drawBoundingBoxes: "finish" or "error"
WriteOutcomes == {"finish", "error"}
\* the webhook POST: returns or rejects
PostOutcomes == {"ok", "throw"}

VARIABLES
    program,      \* "multi" (part_000) or "single" (index.mjs)
    isPrinting,   \* isPrinting[i]: last printing flag adopted for printer i
    hasFailed,    \* hasFailed[i]: printer i is in a failure episode
    pc,           \* the await the monitoring loop is suspended at
    index,        \* loop variable of detectionLoop (1-based here)
    detections,   \* local `detections` of the cycle in progress, kept until the
                  \* boxes are stroked; <<>> outside
    statusSeen,   \* per printer: what this tick's status request came back with
    cycleStart,   \* per printer: hasFailed[i] when this tick's cycle was entered
    log,          \* per printer: this tick's console lines and requests, in order
    run,          \* per printer: consecutive cycles so far that returned a qualifying detection
    episode,      \* per printer: what became of the alert of the failure episode in progress
    stoppedFailed,\* per printer: the last print that stopped did so with hasFailed[i] set
    errorStop,    \* per printer: the last tick that found the printer not printing was a
                  \* status error that cut a failure episode whose POST had been made
    rects,        \* the rectangles stroked on the canvas of the cycle in progress
    snapshot,     \* the output file of the cycle in progress: "none", "unopened"
                  \* (createWriteStream called), "linked" (in the directory),
                  \* "unlinked" (removed from the directory while the stream is open)
    stored,       \* the directory holds snapshot files of completed cycles
    shutdown,     \* "running", "closing" (cleanUp ran, server closing), "exited"
    quals,        \* per printer: qualifying detection lists delivered since start
    sent          \* per webhook: POSTs received since start

\* the state of the program and of what it has logged and requested
vars == <<program, isPrinting, hasFailed, pc, index, detections,
          statusSeen, cycleStart, log, run, episode, stoppedFailed, errorStop,
          rects, snapshot, stored, shutdown, quals, sent>>

\* the counters of the two-printer scenario, which only ScenarioSpec advances
Uncounted == UNCHANGED <<quals, sent>>

\* the configured printers of the running program
Printers == IF program = "multi" THEN 1..NumPrinters ELSE {1}

Min(a, b) == IF a < b THEN a ELSE b

RECURSIVE Count(_, _)
\* number of occurrences of e in the sequence s
Count(e, s) == IF s = <<>> THEN 0
               ELSE (IF Head(s) = e THEN 1 ELSE 0) + Count(e, Tail(s))

\* a qualifying detection list, in the words of the specification: it holds
\* a detection labelled "failure" whose confidence is strictly above the
\* configured minimum (the observer's notion, which `run` counts by)
Qualifying(ds) ==
    \E k \in 1..Len(ds) : ds[k][1] = "failure" /\ ds[k][2] > minimumConfidence

(***************************************************************************)
(* Pure pieces of the code.                                                *)
(***************************************************************************)

\* faulty variant: the catch answers true
checkPrinterStatusThrowIsPrinting(resp) == resp \in {"printing", "throw"}
\* checkPrinterStatus: data.state.flags.printing, or false from the catch
checkPrinterStatus(resp) == resp = "printing"

\* faulty variant: `>=` for `>`
failureDetectedAtOrAbove(ds) ==
    \E k \in 1..Len(ds) : ds[k][1] = "failure" /\ ds[k][2] >= minimumConfidence
\* part_000, the loop over detections: label "failure" and confidence
\* strictly above the minimum
failureDetected(ds) ==
    \E k \in 1..Len(ds) : ds[k][1] = "failure" /\ ds[k][2] > minimumConfidence

\* index.mjs, the loop over detections: label "failure", no confidence test
failureDetectedIndex(ds) ==
    \E k \in 1..Len(ds) : ds[k][1] = "failure"

\* the failureDetected of the running program
FailureDetected(ds) ==
    IF program = "multi" THEN failureDetected(ds) ELSE failureDetectedIndex(ds)

\* faulty variant: level-triggered, the `!hasFailed[index]` test dropped
entersFailureEveryTime(fd, failed) == fd
\* `if (failureDetected && !hasFailed[index])`
entersFailure(fd, failed) == fd /\ ~failed

\* faulty variant: the recovery branch dropped
recoversNever(fd, failed) == FALSE
\* `else if (!failureDetected && hasFailed[index])`
recovers(fd, failed) == ~fd /\ failed

\* faulty variant: the reset dropped
resetOnChangeForgotten(hf, i, changed) == hf
\* faulty variant: a change of one printer's status clears every printer's flag
resetOnChangeAll(hf, i, changed) ==
    IF changed THEN [j \in DOMAIN hf |-> FALSE] ELSE hf
\* detectionLoop: `hasFailed[index] = false` inside the changed-status branch
resetOnChange(hf, i, changed) ==
    IF changed THEN [hf EXCEPT ![i] = FALSE] ELSE hf

\* startMonitoring: `hasFailed = false` in the "Print stopped" branch only
resetOnStop(hf, changed, next) ==
    IF changed /\ ~next THEN [hf EXCEPT ![1] = FALSE] ELSE hf

\* faulty variant: the guard dropped
runsCycleAlways(printing, changed) == TRUE
\* detectionLoop: `if (isPrinting[index]) await checkForFailures(...)`
runsCycle(printing, changed) == printing

\* startMonitoring: checkForFailures is awaited only inside
\* `if (isPrinting !== nextIsPrinting)`, in its "Print started" branch
runsCycleIndex(printing, changed) == changed /\ printing

\* faulty variant: the catch treats the error as "no detections" and recovers
detectErrorClearsFailure(hf, i) == [hf EXCEPT ![i] = FALSE]
\* checkForFailures, catch of a failed detection request: state untouched
onDetectError(hf, i) == hf

\* faulty variant: the catch clears the flag so that the next cycle retries
postErrorClearsFailure(hf, i) == [hf EXCEPT ![i] = FALSE]
\* checkForFailures, catch of a rejected webhook POST: hasFailed[index] was
\* set before the annotation and is not touched again
onPostError(hf, i) == hf

\* faulty variant: the undefined path is formatted into the URL, not thrown on
basenameNeverThrows(imagePath) == FALSE
\* path.basename(imagePath) throws a TypeError when drawBoundingBoxes
\* returned undefined (its own catch swallowed the error)
basenameThrows(imagePath) == imagePath = "undefined"

\* faulty variant: only the detections above the minimum confidence are boxed
drawsBoxAboveMinimum(d) == d[1] = "failure" /\ d[2] > minimumConfidence
\* drawBoundingBoxes: `if (type === "failure")`
drawsBox(d) == d[1] = "failure"

\* drawBoundingBoxes: x = xc - w / 2, y = yc - h / 2, strokeRect(x, y, w, h).
\* w / 2 is a floating-point division, so the corner is kept in half pixels:
\* the rectangle is <<2x, 2y, w, h>>
strokeRect(d) ==
    LET xc == d[3][1]  yc == d[3][2]  w == d[3][3]  h == d[3][4]
    IN  <<2 * xc - w, 2 * yc - h, w, h>>

RECURSIVE strokeRects(_)
\* drawBoundingBoxes: detections.forEach, in order
strokeRects(ds) ==
    IF ds = <<>> THEN <<>>
    ELSE (IF drawsBox(Head(ds)) THEN <<strokeRect(Head(ds))>> ELSE <<>>)
             \o strokeRects(Tail(ds))

\* checkForFailures: `printer.NOTIFICATION_WEBHOOK_URL`, printer = printers[index]
notificationWebhookUrl(i) == i

\* drawBoundingBoxes up to its return: undefined from its catch when the
\* camera fetch or the decode fails, otherwise the promise of the write
drawBoundingBoxesResult(outcome) ==
    IF outcome = "ok" THEN "promise" ELSE "undefined"

(***************************************************************************)
(* The state after the module body has run: both flags false, and the      *)
(* first call of the loop is suspended in its first status request.        *)
(***************************************************************************)
Init ==
    /\ program \in {"multi", "single"}
    /\ isPrinting = [i \in Printers |-> FALSE]
    /\ hasFailed = [i \in Printers |-> FALSE]
    /\ pc = "status"
    /\ index = 1
    /\ detections = <<>>
    /\ statusSeen = [i \in Printers |-> "none"]
    /\ cycleStart = [i \in Printers |-> "none"]
    /\ log = [i \in Printers |-> <<>>]
    /\ run = [i \in Printers |-> 0]
    /\ episode = [i \in Printers |-> "none"]
    /\ stoppedFailed = [i \in Printers |-> FALSE]
    /\ errorStop = [i \in Printers |-> FALSE]
    /\ rects = <<>>
    /\ snapshot = "none"
    /\ stored = FALSE
    /\ shutdown = "running"
    /\ quals = [i \in Printers |-> 0]
    /\ sent = [i \in Printers |-> 0]

\* process.exit() has not run
Alive == shutdown # "exited"

\* the record of an episode ends when hasFailed[i] is cleared
EpisodeAfter(hf) == [i \in Printers |-> IF hf[i] THEN episode[i] ELSE "none"]

\* faulty variant: setTimeout inside the for loop, after the first printer
ReturnToLoopTimerInside ==
    pc' = "sleep" /\ index' = index

\* control returns to the loop after printer `index`: the next printer's
\* status request, or setTimeout(loop, checkInterval) after the last one
ReturnToLoop ==
    IF program = "multi" /\ index < NumPrinters
    THEN pc' = "status" /\ index' = index + 1
    ELSE pc' = "sleep" /\ index' = index

\* lines appended to printer i's log
Logged(i, lines) == log' = [log EXCEPT ![i] = log[i] \o lines]

(***************************************************************************)
(* One iteration of the loop body, from the status response to the next    *)
(* await.  StatusStep is shared; the two programs differ in when they      *)
(* reset hasFailed and in when they call checkForFailures.                 *)
(***************************************************************************)
StatusStep(resp, hf, cycle) ==
    LET i == index
        nextIsPrinting == checkPrinterStatus(resp)
        changed == isPrinting[i] # nextIsPrinting
        started == IF changed THEN
                      <<IF nextIsPrinting THEN "Print started" ELSE "Print stopped">>
                   ELSE <<>>
    IN  /\ isPrinting' = IF changed THEN [isPrinting EXCEPT ![i] = nextIsPrinting]
                         ELSE isPrinting
        /\ hasFailed' = hf
        /\ statusSeen' = [statusSeen EXCEPT ![i] = resp]
        /\ episode' = EpisodeAfter(hf)
        /\ stoppedFailed' = IF changed /\ ~nextIsPrinting
                            THEN [stoppedFailed EXCEPT ![i] = hasFailed[i]]
                            ELSE stoppedFailed
        /\ IF cycle
           THEN \* checkForFailures runs up to its await of the detection request
                /\ pc' = "detect"
                /\ index' = index
                /\ cycleStart' = [cycleStart EXCEPT ![i] = IF hf[i] THEN "failed" ELSE "ok"]
                /\ Logged(i, started \o <<"GET detect">>)
                /\ run' = run
           ELSE /\ ReturnToLoop
                /\ Logged(i, started)
                /\ run' = IF nextIsPrinting THEN run ELSE [run EXCEPT ![i] = 0]
                /\ UNCHANGED cycleStart
        /\ errorStop' = IF nextIsPrinting THEN errorStop
                        ELSE [errorStop EXCEPT ![i] =
                                 /\ resp \in {"throw", "malformed"}
                                 /\ hasFailed[i]
                                 /\ episode[i] = "posted"]
        /\ UNCHANGED <<program, detections, rects, snapshot, stored, shutdown>>

\* part_000, detectionLoop: one printer's status check and what follows it
detectionLoop(resp) ==
    /\ Alive
    /\ program = "multi"
    /\ pc = "status"
    /\ LET next == checkPrinterStatus(resp)
           changed == isPrinting[index] # next
       IN  StatusStep(resp, resetOnChange(hasFailed, index, changed),
                      runsCycle(next, changed))

\* index.mjs, startMonitoring: the status check and what follows it
startMonitoring(resp) ==
    /\ Alive
    /\ program = "single"
    /\ pc = "status"
    /\ LET next == checkPrinterStatus(resp)
           changed == isPrinting[index] # next
       IN  StatusStep(resp, resetOnStop(hasFailed, changed, next),
                      runsCycleIndex(next, changed))

(***************************************************************************)
(* checkForFailures, after the detection request.                          *)
(***************************************************************************)
\* the request rejected, the body is not JSON, or data.detections is not
\* iterable: the catch logs and the cycle ends
checkForFailures_error(failure) ==
    /\ Alive
    /\ pc = "detect"
    /\ failure \in DetectFailures
    /\ hasFailed' = onDetectError(hasFailed, index)
    /\ Logged(index, <<"Error checking for failures">>)
    /\ run' = [run EXCEPT ![index] = 0]
    /\ episode' = EpisodeAfter(onDetectError(hasFailed, index))
    /\ ReturnToLoop
    /\ UNCHANGED <<program, isPrinting, detections, statusSeen, cycleStart, stoppedFailed,
                   errorStop, rects, snapshot, stored, shutdown>>

\* a detection list arrived: decide, flip hasFailed, and either start the
\* annotation (await of the camera fetch) or end the cycle
checkForFailures_detections(ds) ==
    /\ Alive
    /\ pc = "detect"
    /\ LET i == index
           fd == FailureDetected(ds)
       IN  /\ run' = [run EXCEPT ![i] = IF Qualifying(ds)
                                         THEN Min(run[i] + 1, MaxRun) ELSE 0]
           /\ IF entersFailure(fd, hasFailed[i])
              THEN /\ hasFailed' = [hasFailed EXCEPT ![i] = TRUE]
                   /\ episode' = [episode EXCEPT ![i] = "alerting"]
                   /\ detections' = ds
                   /\ Logged(i, <<"drawBoundingBoxes">>)
                   /\ pc' = "camera"
                   /\ index' = index
              ELSE IF recovers(fd, hasFailed[i])
              THEN /\ hasFailed' = [hasFailed EXCEPT ![i] = FALSE]
                   /\ episode' = [episode EXCEPT ![i] = "none"]
                   /\ Logged(i, IF program = "multi"
                                THEN <<"Recovered from failure">> ELSE <<>>)
                   /\ ReturnToLoop
                   /\ UNCHANGED detections
              ELSE /\ ReturnToLoop
                   /\ UNCHANGED <<hasFailed, detections, log, episode>>
    /\ UNCHANGED <<program, isPrinting, statusSeen, cycleStart, stoppedFailed,
                   errorStop, rects, snapshot, stored, shutdown>>

\* faulty variant: no catch, the rejection leaves the loop's promise rejected
\* and nothing schedules the next tick
AlertAbandonedUncaught(lines) ==
    /\ pc' = "crashed"
    /\ UNCHANGED <<program, isPrinting, hasFailed, index, detections, statusSeen,
                   cycleStart, log, run, episode, stoppedFailed, errorStop,
                   rects, snapshot, stored, shutdown>>

\* the catch of checkForFailures, reached from inside the alert branch
AlertAbandoned(lines) ==
    /\ Logged(index, lines \o <<"Error checking for failures">>)
    /\ episode' = [episode EXCEPT ![index] = "annotation failed"]
    /\ detections' = <<>>
    /\ rects' = <<>>
    /\ snapshot' = "none"
    /\ stored' = (stored \/ snapshot = "linked")
    /\ ReturnToLoop
    /\ UNCHANGED <<program, isPrinting, hasFailed, statusSeen, cycleStart, run,
                   stoppedFailed, errorStop, shutdown>>

\* drawBoundingBoxes from the camera fetch to the piped write stream: the
\* frame is drawn, the boxes are stroked, createWriteStream and pipe are called
drawBoundingBoxes_camera(outcome) ==
    /\ Alive
    /\ pc = "camera"
    /\ LET imagePath == drawBoundingBoxesResult(outcome)
       IN  IF imagePath = "promise"
           THEN /\ pc' = "opening"
                /\ rects' = strokeRects(detections)
                /\ detections' = <<>>
                /\ snapshot' = "unopened"
                /\ UNCHANGED <<program, isPrinting, hasFailed, index,
                               statusSeen, cycleStart, log, run, episode, stoppedFailed,
                               errorStop, stored, shutdown>>
           ELSE IF basenameThrows(imagePath)
           THEN AlertAbandoned(<<"Error drawing bounding boxes">>)
           ELSE \* not reached by the code: basename of undefined always throws
                /\ pc' = "notify"
                /\ Logged(index, <<"Error drawing bounding boxes",
                                   "Failure detected", "POST webhook">>)
                /\ UNCHANGED <<program, isPrinting, hasFailed, index, detections,
                               statusSeen, cycleStart, run, episode, stoppedFailed,
                               errorStop, rects, snapshot, stored, shutdown>>

\* the write stream opens its file, which appears in the directory, or
\* fails to and emits "error", which rejects into the catch
drawBoundingBoxes_open(outcome) ==
    /\ Alive
    /\ pc = "opening"
    /\ IF outcome = "open"
       THEN /\ pc' = "writing"
            /\ snapshot' = "linked"
            /\ UNCHANGED <<program, isPrinting, hasFailed, index, detections,
                           statusSeen, cycleStart, log, run, episode, stoppedFailed,
                           errorStop, rects, stored, shutdown>>
       ELSE AlertAbandoned(<<"snapshot write failed">>)

\* the write stream ends: "finish" resolves the path, and checkForFailures
\* goes on to log and to issue the POST; "error" rejects into the catch
drawBoundingBoxes_write(outcome) ==
    /\ Alive
    /\ pc = "writing"
    /\ IF outcome = "finish"
       THEN /\ pc' = "notify"
            /\ Logged(index, <<"snapshot written", "Failure detected", "POST webhook">>)
            /\ UNCHANGED <<program, isPrinting, hasFailed, index, detections,
                           statusSeen, cycleStart, run, episode, stoppedFailed,
                           errorStop, rects, snapshot, stored, shutdown>>
       ELSE AlertAbandoned(<<"snapshot write failed">>)

\* the await of the POST completes: the cycle ends, through the catch when
\* the POST rejected
checkForFailures_notified(outcome) ==
    /\ Alive
    /\ pc = "notify"
    /\ Logged(index, IF outcome = "throw"
                     THEN <<"Error checking for failures">> ELSE <<>>)
    /\ hasFailed' = IF outcome = "throw" THEN onPostError(hasFailed, index)
                    ELSE hasFailed
    /\ episode' = [episode EXCEPT ![index] =
                      IF ~hasFailed'[index] THEN "none"
                      ELSE IF outcome = "throw" THEN "post failed" ELSE "posted"]
    /\ detections' = <<>>
    /\ rects' = <<>>
    /\ snapshot' = "none"
    /\ stored' = (stored \/ snapshot = "linked")
    /\ ReturnToLoop
    /\ UNCHANGED <<program, isPrinting, statusSeen, cycleStart, run,
                   stoppedFailed, errorStop, shutdown>>

\* the timer of setTimeout(loop, checkInterval) fires: a new tick begins
\* with the first printer's status request
Tick ==
    /\ Alive
    /\ pc = "sleep"
    /\ pc' = "status"
    /\ index' = 1
    /\ statusSeen' = [i \in Printers |-> "none"]
    /\ cycleStart' = [i \in Printers |-> "none"]
    /\ log' = [i \in Printers |-> <<>>]
    /\ UNCHANGED <<program, isPrinting, hasFailed, detections, run, episode,
                   stoppedFailed, errorStop, rects, snapshot, stored, shutdown>>

(***************************************************************************)
(* The monitor while no termination signal arrives.                        *)
(***************************************************************************)
Next ==
    \/ (\E resp \in StatusResponses : detectionLoop(resp)) /\ Uncounted
    \/ (\E resp \in StatusResponses : startMonitoring(resp)) /\ Uncounted
    \/ (\E f \in DetectFailures : checkForFailures_error(f)) /\ Uncounted
    \/ (\E ds \in DetectionLists : checkForFailures_detections(ds)) /\ Uncounted
    \/ (\E o \in CameraOutcomes : drawBoundingBoxes_camera(o)) /\ Uncounted
    \/ (\E o \in OpenOutcomes : drawBoundingBoxes_open(o)) /\ Uncounted
    \/ (\E o \in WriteOutcomes : drawBoundingBoxes_write(o)) /\ Uncounted
    \/ (\E o \in PostOutcomes : checkForFailures_notified(o)) /\ Uncounted
    \/ Tick /\ Uncounted

Spec == Init /\ [][Next]_vars

(***************************************************************************)
(* The annotator on detection lists whose boxes differ, with even and odd  *)
(* sizes: one tick up to the stroked canvas.                               *)
(***************************************************************************)
DrawBoxes == {<<10, 10, 20, 20>>, <<7, 9, 5, 3>>}
DrawLists == SeqsUpTo(Labels \X Confidences \X DrawBoxes, MaxDetections)

DrawNext ==
    \/ (\E resp \in StatusResponses : detectionLoop(resp)) /\ Uncounted
    \/ (\E resp \in StatusResponses : startMonitoring(resp)) /\ Uncounted
    \/ (\E ds \in DrawLists : checkForFailures_detections(ds)) /\ Uncounted
    \/ (\E o \in CameraOutcomes : drawBoundingBoxes_camera(o)) /\ Uncounted

DrawSpec == Init /\ [][DrawNext]_vars

(***************************************************************************)
(* The monitor with its signal handler.  SIGINT or SIGTERM may arrive      *)
(* whenever the event loop is free, which is at every await of the loop.   *)
(***************************************************************************)
\* process.on("SIGINT" / "SIGTERM", cleanUp): emptyDirSync removes every file
\* of the directory, an open write stream keeps writing to its removed file;
\* server.close is called with the callback that exits
cleanUp ==
    /\ Alive
    /\ stored' = FALSE
    /\ snapshot' = IF snapshot = "linked" THEN "unlinked" ELSE snapshot
    /\ shutdown' = "closing"
    /\ UNCHANGED <<program, isPrinting, hasFailed, pc, index, detections,
                   statusSeen, cycleStart, log, run, episode, stoppedFailed,
                   errorStop, rects>>

\* the callback of server.close: console.log, process.exit()
cleanUp_closed ==
    /\ shutdown = "closing"
    /\ shutdown' = "exited"
    /\ UNCHANGED <<program, isPrinting, hasFailed, pc, index, detections,
                   statusSeen, cycleStart, log, run, episode, stoppedFailed,
                   errorStop, rects, snapshot, stored>>

ShutdownNext ==
    \/ Next
    \/ cleanUp /\ Uncounted
    \/ cleanUp_closed /\ Uncounted

ShutdownSpec == Init /\ [][ShutdownNext]_vars

(***************************************************************************)
(* No termination signal arrives, every awaited call (status, detection,   *)
(* camera fetch, file write, webhook POST) eventually returns or throws,   *)
(* and the timer of setTimeout eventually fires.  At most one of these is  *)
(* pending at a time, so fairness of the next-state relation is fairness   *)
(* of each.  Whether the loop goes on does not depend on what a detection  *)
(* list holds beyond what one detection can decide, so the detection       *)
(* endpoint answers with lists of at most one detection here.              *)
(***************************************************************************)
SingleDetectionLists == {ds \in DetectionLists : Len(ds) <= 1}

FairNext ==
    \/ (\E resp \in StatusResponses : detectionLoop(resp)) /\ Uncounted
    \/ (\E resp \in StatusResponses : startMonitoring(resp)) /\ Uncounted
    \/ (\E f \in DetectFailures : checkForFailures_error(f)) /\ Uncounted
    \/ (\E ds \in SingleDetectionLists : checkForFailures_detections(ds)) /\ Uncounted
    \/ (\E o \in CameraOutcomes : drawBoundingBoxes_camera(o)) /\ Uncounted
    \/ (\E o \in OpenOutcomes : drawBoundingBoxes_open(o)) /\ Uncounted
    \/ (\E o \in WriteOutcomes : drawBoundingBoxes_write(o)) /\ Uncounted
    \/ (\E o \in PostOutcomes : checkForFailures_notified(o)) /\ Uncounted
    \/ Tick /\ Uncounted

FairSpec == Init /\ [][FairNext]_vars /\ WF_vars(FairNext)

(***************************************************************************)
(* Two printers of which only printer 1 is ever sent a qualifying          *)
(* detection, once: the detection endpoint is held to that, the deliveries *)
(* and the POSTs each webhook receives are counted, and everything else    *)
(* (status answers, errors, annotation and POST outcomes) stays free.      *)
(***************************************************************************)
ScenarioInit == Init /\ program = "multi"

\* the detection endpoint answers printer `index`
checkForFailures_detections_counted(ds) ==
    /\ Qualifying(ds) => (index = 1 /\ quals[1] = 0)
    /\ checkForFailures_detections(ds)
    /\ quals' = [quals EXCEPT ![index] = IF Qualifying(ds) THEN @ + 1 ELSE @]
    /\ UNCHANGED sent

\* on "finish" the POST leaves for the webhook of the printer in hand
drawBoundingBoxes_write_counted(outcome) ==
    /\ drawBoundingBoxes_write(outcome)
    /\ sent' = IF outcome = "finish"
               THEN [sent EXCEPT ![notificationWebhookUrl(index)] = @ + 1]
               ELSE sent
    /\ UNCHANGED quals

ScenarioNext ==
    \/ (\E resp \in StatusResponses : detectionLoop(resp)) /\ Uncounted
    \/ (\E f \in DetectFailures : checkForFailures_error(f)) /\ Uncounted
    \/ \E ds \in DetectionLists : checkForFailures_detections_counted(ds)
    \/ (\E o \in CameraOutcomes : drawBoundingBoxes_camera(o)) /\ Uncounted
    \/ (\E o \in OpenOutcomes : drawBoundingBoxes_open(o)) /\ Uncounted
    \/ \E o \in WriteOutcomes : drawBoundingBoxes_write_counted(o)
    \/ (\E o \in PostOutcomes : checkForFailures_notified(o)) /\ Uncounted
    \/ Tick /\ Uncounted

ScenarioSpec == ScenarioInit /\ [][ScenarioNext]_vars

TypeOK ==
    /\ program \in {"multi", "single"}
    /\ isPrinting \in [Printers -> BOOLEAN]
    /\ hasFailed \in [Printers -> BOOLEAN]
    /\ pc \in {"status", "detect", "camera", "opening", "writing", "notify", "sleep"}
    /\ index \in Printers
    /\ detections \in DetectionLists \cup DrawLists
    /\ run \in [Printers -> 0..MaxRun]
    /\ episode \in [Printers -> {"none", "alerting", "posted", "post failed",
                                  "annotation failed"}]
    /\ stoppedFailed \in [Printers -> BOOLEAN]
    /\ \A i \in Printers : (episode[i] # "none") <=> hasFailed[i]
    /\ errorStop \in [Printers -> BOOLEAN]
    /\ snapshot \in {"none", "unopened", "linked", "unlinked"}
    /\ stored \in BOOLEAN
    /\ shutdown \in {"running", "closing", "exited"}

(***************************************************************************)
(* Vocabulary of the properties.                                           *)
(***************************************************************************)
\* printer i's iteration of this tick has completed
Done(i) == pc = "sleep" \/ (program = "multi" /\ index > i)
\* checkForFailures was called for printer i in this tick
CycleRan(i) == cycleStart[i] # "none"
\* line e occurs in printer i's log of this tick
Has(i, e) == Count(e, log[i]) > 0
\* requests to the detection endpoint for printer i in this tick
Detects(i) == Count("GET detect", log[i])
\* POSTs to printer i's webhook in this tick
Posts(i) == Count("POST webhook", log[i])
\* calls of drawBoundingBoxes for printer i in this tick
Annotations(i) == Count("drawBoundingBoxes", log[i])
\* the annotation of this tick's cycle failed: camera fetch or decode
\* (caught inside drawBoundingBoxes), or the write stream's error
AnnotationFailed(i) ==
    Has(i, "Error drawing bounding boxes") \/ Has(i, "snapshot write failed")
\* a status response that checkPrinterStatus does not report as printing
NotPrinting == {"idle", "throw", "malformed"}

(***************************************************************************)
(* C1.  In every reachable state, mid-tick states included, hasFailed[i]   *)
(* is true only if isPrinting[i] is true, for every printer i.             *)
(***************************************************************************)
C1_FailedOnlyWhilePrinting ==
    \A i \in Printers : hasFailed[i] => isPrinting[i]

\* mid-tick: printer 1 is in a failure episode while printer 2, which was
\* once stopped during a failure, is inside its detection cycle
C1_Witness ==
    /\ program = "multi"
    /\ hasFailed[1] /\ isPrinting[1]
    /\ index = 2 /\ pc = "detect"
    /\ stoppedFailed[2]

(***************************************************************************)
(* C2.  While the status stays "printing", every maximal run of            *)
(* consecutive detection cycles that each return a qualifying detection    *)
(* produces exactly one POST, issued in the first cycle of the run.        *)
(* As claimed: the first cycle of a run holds exactly one POST and the     *)
(* later ones none.                                                        *)
(***************************************************************************)
C2_Original ==
    \A i \in Printers :
        (program = "multi" /\ Done(i) /\ CycleRan(i) /\ run[i] >= 1)
            => Posts(i) = (IF run[i] = 1 THEN 1 ELSE 0)

(***************************************************************************)
(* C2, amended.  Such a run produces at most one POST, and only in its     *)
(* first cycle and only if that cycle started with hasFailed[i] false; it  *)
(* produces exactly one when that first cycle started with hasFailed[i]    *)
(* false and its annotation did not fail.  (The run is one of part_000,    *)
(* the program the claim is about; no cycle of either program posts        *)
(* twice.)                                                                 *)
(***************************************************************************)
C2_Amended ==
    \A i \in Printers :
        /\ Posts(i) <= 1
        /\ (program = "multi" /\ Posts(i) = 1) => (run[i] = 1 /\ cycleStart[i] = "ok")
        /\ (program = "multi" /\ Done(i) /\ CycleRan(i) /\ run[i] = 1 /\ cycleStart[i] = "ok"
                /\ ~AnnotationFailed(i))
              => Posts(i) = 1

\* a run of at least MaxRun qualifying cycles whose one POST was made in
\* its first cycle: the current cycle, late in the run, made none
C2_Witness ==
    \E i \in Printers :
        /\ program = "multi"
        /\ Done(i) /\ CycleRan(i)
        /\ run[i] = MaxRun
        /\ episode[i] = "posted"
        /\ Posts(i) = 0

(***************************************************************************)
(* C3.  A detection cycle that starts with hasFailed[i] true neither calls *)
(* drawBoundingBoxes nor posts to the webhook, whatever it receives; both  *)
(* happen only in a cycle that moves hasFailed[i] from false to true.      *)
(***************************************************************************)
C3_NoAlertWhileFailed ==
    \A i \in Printers :
        /\ cycleStart[i] = "failed" => (Annotations(i) = 0 /\ Posts(i) = 0)
        /\ (Annotations(i) > 0 \/ Posts(i) > 0)
              => (cycleStart[i] = "ok" /\ hasFailed[i])

\* a cycle that started in a failure episode and received a qualifying
\* detection again has completed
C3_Witness ==
    \E i \in Printers :
        Done(i) /\ cycleStart[i] = "failed" /\ run[i] >= 2 /\ hasFailed[i]

(***************************************************************************)
(* C4.  A detection cycle whose list holds no detection with label         *)
(* "failure" and confidence strictly above the configured minimum never    *)
(* moves the printer from Printing-OK to Printing-Failed and never calls   *)
(* the annotator or the notifier.                                          *)
(***************************************************************************)
C4_BelowThresholdNoTransition ==
    [][ \A ds \in DetectionLists :
          (pc = "detect" /\ ~Qualifying(ds) /\ checkForFailures_detections(ds))
             => /\ hasFailed'[index] = hasFailed[index] \/ hasFailed[index]
                /\ pc' # "camera"
                /\ Count("drawBoundingBoxes", log'[index]) = 0
                /\ Count("POST webhook", log'[index]) = 0 ]_vars

(***************************************************************************)
(* C5.  A status check that reports not printing while the printer is in   *)
(* Printing-Failed clears hasFailed in that tick, with no "Recovered from  *)
(* failure" line and no notification; when printing resumes later and a    *)
(* qualifying failure is detected, a new notification is sent.             *)
(* As claimed, its last part: after such a stop, every cycle that detects  *)
(* a qualifying failure for a printer not in a failure episode posts.      *)
(***************************************************************************)
C5_Original ==
    \A i \in Printers :
        (program = "multi" /\ stoppedFailed[i] /\ Done(i) /\ CycleRan(i) /\ cycleStart[i] = "ok"
            /\ run[i] >= 1)
          => Posts(i) = 1

\* the tick of a printer reported as not printing: no recovery line, no
\* POST, no detection request, and the failure flag is down
C5_StoppedTick ==
    \A i \in Printers :
        statusSeen[i] \in NotPrinting
          => /\ ~hasFailed[i]
             /\ ~Has(i, "Recovered from failure")
             /\ Posts(i) = 0 /\ Annotations(i) = 0

\* the status step itself, taken in Printing-Failed
C5_StopStep ==
    \A i \in Printers :
        (pc = "status" /\ index = i /\ hasFailed[i]
            /\ statusSeen'[i] \in NotPrinting)
          => /\ ~hasFailed'[i] /\ ~isPrinting'[i]
             /\ log'[i] = <<"Print stopped">>

\* the new episode after the stop
C5_NewEpisode ==
    \A i \in Printers :
        (stoppedFailed[i] /\ Done(i) /\ CycleRan(i) /\ cycleStart[i] = "ok"
            /\ run[i] >= 1)
          => /\ Annotations(i) = 1
             /\ ~AnnotationFailed(i) => Posts(i) = 1

(***************************************************************************)
(* C5, amended.  The stop clears hasFailed in that tick with no            *)
(* "Recovered from failure" line and no notification; when printing        *)
(* resumes later and a qualifying failure is detected, the annotation is   *)
(* attempted anew and a new notification is sent unless that annotation    *)
(* fails.                                                                  *)
(***************************************************************************)
C5_Amended ==
    /\ [](C5_StoppedTick /\ C5_NewEpisode)
    /\ [][C5_StopStep]_vars

\* a printer that was stopped during a failure has resumed, failed again
\* and been notified again
C5_Witness ==
    \E i \in Printers :
        /\ program = "multi"
        /\ stoppedFailed[i] /\ Done(i)
        /\ cycleStart[i] = "ok" /\ run[i] = 1
        /\ Posts(i) = 1 /\ episode[i] = "posted"

\* the ticks of C6, as states: no detection request on a tick reported as
\* not printing, never two in a tick, one on the tick of "Print started"
C6_IdleTick ==
    \A i \in Printers :
        /\ statusSeen[i] \in NotPrinting => (Detects(i) = 0 /\ ~CycleRan(i))
        /\ Detects(i) <= 1
        /\ (Done(i) /\ Has(i, "Print started")) => Detects(i) = 1

\* the status step that finds an idle printer printing
C6_StartStep ==
    \A i \in Printers :
        (pc = "status" /\ index = i /\ ~isPrinting[i]
            /\ statusSeen'[i] = "printing")
          => /\ Count("Print started", log'[i]) = 1
             /\ Count("GET detect", log'[i]) = 1
             /\ pc' = "detect" /\ index' = i

(***************************************************************************)
(* C6.  On a tick whose status check reports not printing, no request goes *)
(* to the detection endpoint for that printer; on the tick where the       *)
(* status changes from not printing to printing, "Print started" is logged *)
(* and exactly one detection cycle runs for that printer in that tick.     *)
(***************************************************************************)
C6_DetectionOnlyWhilePrinting ==
    /\ []C6_IdleTick
    /\ [][C6_StartStep]_vars

\* a tick in which printer i started printing and ran its one cycle
C6_Witness ==
    \E i \in Printers :
        Done(i) /\ Has(i, "Print started") /\ Detects(i) = 1

(***************************************************************************)
(* C7.  In both monitoring loops, every tick whose status check reports    *)
(* printing runs one detection cycle for that printer, not only the tick   *)
(* on which the print started.                                             *)
(***************************************************************************)
C7_CycleOnEveryPrintingTick ==
    \A i \in Printers :
        (Done(i) /\ statusSeen[i] = "printing") => Detects(i) = 1

\* the step in which the catch of a failed detection request runs: the
\* only line added to the log is the error
C8_DetectErrorStep ==
    \A i \in Printers :
        (pc = "detect" /\ index = i
            /\ log'[i] = Append(log[i], "Error checking for failures"))
          => /\ hasFailed' = hasFailed
             /\ isPrinting' = isPrinting
             /\ pc' \in {"status", "sleep"}

(***************************************************************************)
(* C8.  A detection request that throws, or whose response is malformed,   *)
(* leaves hasFailed[i] and isPrinting[i] as they were and calls neither    *)
(* the annotator nor the notifier.                                         *)
(***************************************************************************)
C8_DetectErrorKeepsState == [][C8_DetectErrorStep]_vars

\* a printer in Printing-Failed whose detection request failed is still
\* in Printing-Failed at the end of its cycle
C8_Witness ==
    \E i \in Printers :
        /\ Done(i) /\ cycleStart[i] = "failed" /\ hasFailed[i]
        /\ log[i] = <<"GET detect", "Error checking for failures">>

(***************************************************************************)
(* C9.  A status request that throws, or whose response does not hold the  *)
(* nested printing flag, makes that tick treat the printer as not          *)
(* printing: isPrinting[i] and hasFailed[i] are false and no detection     *)
(* cycle runs for it in that tick.                                         *)
(***************************************************************************)
C9_StatusErrorIsNotPrinting ==
    \A i \in Printers :
        statusSeen[i] \in {"throw", "malformed"}
          => /\ ~isPrinting[i] /\ ~hasFailed[i]
             /\ Detects(i) = 0 /\ ~CycleRan(i)
             /\ Done(i)

\* a status error has stopped a print that was in a failure episode:
\* the tick logged "Print stopped" and nothing else
C9_Witness ==
    \E i \in Printers :
        /\ statusSeen[i] = "throw"
        /\ log[i] = <<"Print stopped">>
        /\ stoppedFailed[i]

(***************************************************************************)
(* C10.  When a cycle finds a qualifying failure in Printing-OK and the    *)
(* annotation fails, hasFailed[i] is set all the same, no POST is made in  *)
(* that cycle, and no later cycle of that episode annotates or posts.      *)
(***************************************************************************)
C10_AnnotationFailure ==
    \A i \in Printers :
        /\ AnnotationFailed(i)
              => /\ cycleStart[i] = "ok" /\ hasFailed[i]
                 /\ episode[i] = "annotation failed"
                 /\ Posts(i) = 0
                 /\ Done(i)
        /\ (episode[i] = "annotation failed" /\ cycleStart[i] = "failed")
              => (Annotations(i) = 0 /\ Posts(i) = 0)

\* a later cycle of an episode whose annotation failed has received a
\* qualifying detection again and completed
C10_Witness ==
    \E i \in Printers :
        /\ episode[i] = "annotation failed"
        /\ Done(i) /\ cycleStart[i] = "failed"
        /\ run[i] >= 2

(***************************************************************************)
(* C11.  When the webhook POST of a failure episode throws, hasFailed[i]   *)
(* stays true, and no later cycle of that episode (the printer keeps       *)
(* printing, qualifying failures keep being detected) annotates or posts   *)
(* again.                                                                  *)
(***************************************************************************)
PostThrew(i) ==
    /\ Posts(i) = 1 /\ Done(i)
    /\ log[i][Len(log[i])] = "Error checking for failures"

C11_PostFailureNotRetried ==
    \A i \in Printers :
        /\ PostThrew(i) => (hasFailed[i] /\ episode[i] = "post failed")
        /\ episode[i] = "post failed" => hasFailed[i] /\ isPrinting[i]
        /\ (episode[i] = "post failed" /\ cycleStart[i] = "failed")
              => (Annotations(i) = 0 /\ Posts(i) = 0)

\* a later cycle of an episode whose POST threw has received a qualifying
\* detection again and completed without posting
C11_Witness ==
    \E i \in Printers :
        /\ episode[i] = "post failed"
        /\ Done(i) /\ cycleStart[i] = "failed"
        /\ run[i] >= 2
        /\ Posts(i) = 0

(***************************************************************************)
(* C12.  For a printer in Printing-Failed, a detection cycle that          *)
(* completes with no qualifying failure detection clears hasFailed[i],     *)
(* logs "Recovered from failure" and ends the cycle at once: no annotation *)
(* and no POST are made in it.                                             *)
(***************************************************************************)
C12_RecoveryStep ==
    (pc = "detect" /\ hasFailed[index] /\ run'[index] = 0
       /\ Count("Error checking for failures", log'[index]) = 0)
        => /\ ~hasFailed'[index]
           /\ log'[index] = Append(log[index], "Recovered from failure")
           /\ pc' \in {"status", "sleep"}
           /\ snapshot' = "none" /\ rects' = <<>>

C12_Recovered ==
    \A i \in Printers :
        Has(i, "Recovered from failure")
            => /\ cycleStart[i] = "failed" /\ ~hasFailed[i]
               /\ Done(i) /\ run[i] = 0
               /\ Annotations(i) = 0 /\ Posts(i) = 0

C12_Recovery == [][C12_RecoveryStep]_vars /\ []C12_Recovered

\* a printer has just recovered
C12_Witness ==
    \E i \in Printers :
        /\ Has(i, "Recovered from failure")
        /\ cycleStart[i] = "failed" /\ ~hasFailed[i] /\ isPrinting[i]

(***************************************************************************)
(* C13.  Processing printer i changes only isPrinting[i] and hasFailed[i]  *)
(* and posts only to printer i's webhook.  With two printers of which only *)
(* printer 1 is ever sent a qualifying detection, once: printer 2's        *)
(* webhook receives nothing, printer 1's receives at most one POST, and    *)
(* it receives exactly one unless the annotation of that cycle fails;      *)
(* printer 2's state is not changed by any step taken for printer 1.       *)
(***************************************************************************)
\* the one qualifying detection has been delivered and its alert branch is over
C13_Settled ==
    quals[1] = 1 /\ pc \notin {"camera", "opening", "writing"}

\* as claimed: exactly one notification in total, to printer 1's webhook
C13_Original ==
    C13_Settled => (sent[1] = 1 /\ sent[2] = 0)

C13_FrameStep ==
    \A j \in Printers :
        j # index
          => /\ isPrinting'[j] = isPrinting[j]
             /\ hasFailed'[j] = hasFailed[j]
             /\ sent'[j] = sent[j]

C13_Counts ==
    /\ quals[2] = 0 /\ quals[1] <= 1
    /\ sent[2] = 0 /\ sent[1] <= quals[1]
    /\ ~hasFailed[2]
    /\ (C13_Settled /\ run[1] = 1 /\ cycleStart[1] = "ok")
          => (sent[1] = 1 <=> ~AnnotationFailed(1))
    /\ (quals[1] = 1 /\ sent[1] = 0 /\ hasFailed[1])
          => episode[1] \in {"alerting", "annotation failed"}

C13_Amended == [][C13_FrameStep]_vars /\ []C13_Counts

\* the single notification has reached printer 1's webhook, and printer 2
\* has been processed since, with a change of its own status
C13_Witness ==
    /\ sent[1] = 1 /\ sent[2] = 0 /\ quals[1] = 1
    /\ hasFailed[1]
    /\ Done(2) /\ isPrinting[2] /\ Has(2, "Print started")

(***************************************************************************)
(* C14.  While no termination signal arrives and every awaited call        *)
(* eventually returns or throws, every tick runs to its setTimeout and is  *)
(* followed by another tick, whatever the status, detection, annotation    *)
(* and notification outcomes are.                                          *)
(***************************************************************************)
\* a tick begins: the first printer's status request is out
TickStart == pc = "status" /\ index = 1

DirectoryHoldsFile == stored \/ snapshot = "linked"

(***************************************************************************)
(* C15.  When the process exits through cleanUp, the snapshot directory    *)
(* holds no snapshot file at the moment of exit, in every interleaving of  *)
(* the handler with the monitoring loop.                                   *)
(***************************************************************************)
C15_DirectoryEmptyAtExit ==
    shutdown = "exited" => ~DirectoryHoldsFile

(***************************************************************************)
(* C16.  Whenever a notification is posted, the file its image URL names   *)
(* has been written to the end in that cycle and is in the served          *)
(* directory at the time of the POST, in every interleaving with cleanUp.  *)
(***************************************************************************)
C16_PostStep ==
    (pc = "writing" /\ pc' = "notify")
        => /\ snapshot' = "linked"
           /\ Count("snapshot written", log'[index]) = 1
           /\ Posts(index) = 0

C16_SnapshotServedAtPost == [][C16_PostStep]_vars

(***************************************************************************)
(* C17.  Given the full detection list of the cycle, the annotator draws   *)
(* exactly one rectangle for each detection labelled "failure", whatever   *)
(* its confidence, with corner (centerX - width/2, centerY - height/2) and *)
(* size (width, height), and none for a detection with another label.      *)
(***************************************************************************)
\* the positions of ds that hold a detection labelled "failure"
FailurePositions(ds) == {k \in 1..Len(ds) : ds[k][1] = "failure"}

\* rs holds, in order, one rectangle per "failure" of ds; a rectangle is
\* <<2x, 2y, w, h>>, so its corner is right when corner plus half the size
\* is the centre
Boxed(ds, rs) ==
    /\ Len(rs) = Cardinality(FailurePositions(ds))
    /\ \A k \in FailurePositions(ds) :
          LET r == rs[Cardinality({m \in FailurePositions(ds) : m <= k})]
              box == ds[k][3]
          IN  /\ r[3] = box[3] /\ r[4] = box[4]
              /\ r[1] + r[3] = 2 * box[1]
              /\ r[2] + r[4] = 2 * box[2]

C17_DrawStep ==
    (pc = "camera" /\ pc' = "opening") => Boxed(detections, rects')

C17_OneBoxPerFailure == [][C17_DrawStep]_vars

\* a canvas with two rectangles: the odd-sized box, whose corner is at
\* (4.5, 7.5), then the even-sized one at (0, 0)
C17_Witness ==
    /\ pc = "opening"
    /\ rects = << <<9, 15, 5, 3>>, <<0, 0, 20, 20>> >>

(***************************************************************************)
(* C18.  Within a tick the printers are processed in configured order;     *)
(* the status request of printer N+1 goes out only when the status check   *)
(* of printer N and, if it ran, its detection cycle with annotation and    *)
(* notification are over; setTimeout is reached only after the last        *)
(* printer; so at any time at most one printer is being processed and a    *)
(* tick begins only when the one before is over.                           *)
(***************************************************************************)
LastPrinter == Cardinality(Printers)

\* what the tick has done so far: the printers before `index` are done with,
\* those after it are untouched
C18_InOrder ==
    /\ index \in Printers
    /\ \A j \in Printers :
          /\ j < index => statusSeen[j] # "none"
          /\ j > index => /\ statusSeen[j] = "none"
                          /\ cycleStart[j] = "none"
                          /\ log[j] = <<>>
    /\ pc = "status" => /\ statusSeen[index] = "none"
                        /\ log[index] = <<>>
    /\ pc \in {"detect", "camera", "opening", "writing", "notify"}
          => /\ statusSeen[index] = "printing"
             /\ CycleRan(index)
    /\ pc = "sleep" => /\ index = LastPrinter
                       /\ \A j \in Printers : statusSeen[j] # "none"

C18_SequentialStep ==
    \* only the printer in hand is requested for and logged about
    /\ pc # "sleep" => \A j \in Printers : j # index => log'[j] = log[j]
    \* the loop moves on by one, to the next status request
    /\ (pc # "sleep" /\ index' # index)
          => (index' = index + 1 /\ pc' = "status")
    \* the timer is set after the last printer only
    /\ (pc # "sleep" /\ pc' = "sleep") => index = LastPrinter
    \* a tick begins from the timer only, with the first printer
    /\ pc = "sleep"
          => /\ pc' = "status" /\ index' = 1
             /\ \A j \in Printers : statusSeen'[j] = "none" /\ log'[j] = <<>>

C18_Sequential == []C18_InOrder /\ [][C18_SequentialStep]_vars

\* the second printer's status request is out, after the first printer's
\* cycle with annotation and notification
C18_Witness ==
    /\ program = "multi"
    /\ pc = "status" /\ index = 2
    /\ Posts(1) = 1 /\ Has(1, "snapshot written")
    /\ episode[1] \in {"posted", "post failed"}

(***************************************************************************)
(* C19.  A status-check error on a tick while the printer is in            *)
(* Printing-Failed is handled like a print stop: isPrinting[i] and         *)
(* hasFailed[i] both become false.  If the next tick reports printing      *)
(* again and the detector still returns a qualifying failure, the failure  *)
(* is annotated again and, unless that annotation fails, a second          *)
(* notification is sent for it.                                            *)
(***************************************************************************)
\* the tick after a status error that cut a notified failure episode
\* reports printing again
ResumedAfterErrorStop(i) == errorStop[i] /\ Has(i, "Print started")

\* as claimed: a second notification is sent
C19_Original ==
    \A i \in Printers :
        (program = "multi" /\ ResumedAfterErrorStop(i) /\ Done(i) /\ run[i] = 1)
            => Posts(i) = 1

C19_ErrorStopStep ==
    (pc = "status" /\ hasFailed[index]
       /\ statusSeen'[index] \in {"throw", "malformed"})
        => /\ ~isPrinting'[index] /\ ~hasFailed'[index]
           /\ log'[index] = <<"Print stopped">>
           /\ pc' \in {"status", "sleep"}

C19_Resumed ==
    \A i \in Printers :
        ResumedAfterErrorStop(i)
            => /\ isPrinting[i]
               /\ CycleRan(i) /\ cycleStart[i] = "ok"
               /\ (Done(i) /\ run[i] = 1)
                     => /\ Annotations(i) = 1
                        /\ hasFailed[i]
                        /\ Posts(i) = (IF AnnotationFailed(i) THEN 0 ELSE 1)

C19_Amended == [][C19_ErrorStopStep]_vars /\ []C19_Resumed

\* the second notification for the failure has been sent
C19_Witness ==
    \E i \in Printers :
        /\ program = "multi"
        /\ ResumedAfterErrorStop(i)
        /\ run[i] = 1 /\ Posts(i) = 1 /\ Done(i)

====
